---- MODULE Spec2Model ----
(***************************************************************************)
(* Model of the code quality analyzer of src/analyzer.py: main() with its   *)
(* checks of the command line and its loop over the files, the             *)
(* CodeQualityAnalyzer object it builds for each file, the steps of        *)
(* analyze() and the verdict of print_report().                            *)
(*                                                                         *)
(* Numbers.  Category scores are kept in tenths (10.0 is 100), weights in  *)
(* hundredths (0.20 is 20), so overall_score is in thousandths (10.0 is    *)
(* 10000).  Python computes them in binary floating point; the model       *)
(* computes them exactly, so representation error of the floats (for       *)
(* example 10.0 - 5 * 0.2 = 9.000000000000004) is not modelled.  It shows  *)
(* in one place: round(overall_score, 1) of a sum that is an exact decimal *)
(* tie (8.65, 9.15) follows the error of the float, up or down; the model  *)
(* rounds the exact value, halves to the even tenth.                       *)
(*                                                                         *)
(* Text.  A source text is a sequence of tokens; a token is a string that  *)
(* stands for itself, so its length in characters is Len(token).  The      *)
(* newline is the token "\n".  The syntax tree that ast.parse builds for a *)
(* text is part of the input (the parser is Python's, not the program's):  *)
(* a file is the text together with the parser's answer for it.            *)
(***************************************************************************)
EXTENDS Integers, Sequences, FiniteSets, TLC

(***************************************************************************)
(* Bounds of the input families.                                           *)
(***************************************************************************)
MaxFiles == 2
MaxHandlers == 7
MaxLines == 2
MaxFuncs == 2
MaxStmts == 2
MaxRepeats == 3
MaxCalls == 2

(***************************************************************************)
(* General helpers.                                                        *)
(***************************************************************************)
Max(a, b) == IF a >= b THEN a ELSE b

\* max with the clamp lost: the score is written as it is
max_unclamped(a, b) == b

\* Python's max(a, b), as the analyzers use it to clamp a score
max(a, b) == IF b > a THEN b ELSE a

RECURSIVE Gcd(_, _)
Gcd(a, b) == IF b = 0 THEN a ELSE Gcd(b, a % b)

RECURSIVE SumSeq(_)
SumSeq(s) == IF s = <<>> THEN 0 ELSE Head(s) + SumSeq(Tail(s))

RECURSIVE MaxSeq(_)
MaxSeq(s) == IF Len(s) = 1 THEN s[1] ELSE Max(Head(s), MaxSeq(Tail(s)))

\* the concatenation of the sequences of ss (by halves: the depth of the
\* recursion stays logarithmic in Len(ss))
RECURSIVE Flatten(_)
Flatten(ss) ==
  IF ss = <<>> THEN <<>>
  ELSE IF Len(ss) = 1 THEN ss[1]
  ELSE LET h == Len(ss) \div 2
       IN  Flatten(SubSeq(ss, 1, h)) \o Flatten(SubSeq(ss, h + 1, Len(ss)))

SeqsUpTo(S, n) == UNION {[1..k -> S] : k \in 0..n}

(***************************************************************************)
(* Text: str.split('\n'), str.strip(), len(), str.startswith('#') and the  *)
(* four regular expressions of _analyze_security.                          *)
(***************************************************************************)
NL == "\n"

IsSpace(c) == c \in {" ", "    ", "\t"}

IsQuote(c) == c \in {"\"", "'"}

\* re.IGNORECASE on the tokens of the alphabet
Lower(c) ==
  CASE c = "PASSWORD" -> "password"
    [] c = "Token" -> "token"
    [] OTHER -> c

\* code.split('\n'): the pieces between consecutive newlines
split(code) ==
  LET nl == SelectSeq([i \in 1..Len(code) |-> i], LAMBDA i : code[i] = NL)
      pos(k) == IF k = 0 THEN 0
                ELSE IF k > Len(nl) THEN Len(code) + 1
                ELSE nl[k]
  IN  [k \in 1..(Len(nl) + 1) |-> SubSeq(code, pos(k - 1) + 1, pos(k) - 1)]

RECURSIVE lstrip(_)
lstrip(s) == IF s # <<>> /\ IsSpace(Head(s)) THEN lstrip(Tail(s)) ELSE s

RECURSIVE rstrip(_)
rstrip(s) ==
  IF s # <<>> /\ IsSpace(s[Len(s)]) THEN rstrip(SubSeq(s, 1, Len(s) - 1)) ELSE s

strip(s) == rstrip(lstrip(s))

RECURSIVE len(_)
len(s) == IF s = <<>> THEN 0 ELSE Len(Head(s)) + len(Tail(s))

startswith(s, c) == s # <<>> /\ Head(s) = c

secret_patterns == <<"password", "api_key", "secret", "token">>

\* re.search(kw \s* = \s* ["'] .* ["'], line, re.IGNORECASE)
re_search(kw, line) ==
  \E i \in 1..Len(line) :
    /\ Lower(line[i]) = kw
    /\ \E j \in (i + 1)..Len(line) :
         /\ line[j] = "="
         /\ \A p \in (i + 1)..(j - 1) : IsSpace(line[p])
         /\ \E k \in (j + 1)..Len(line) :
              /\ IsQuote(line[k])
              /\ \A p \in (j + 1)..(k - 1) : IsSpace(line[p])
              /\ \E m \in (k + 1)..Len(line) : IsQuote(line[m])

(***************************************************************************)
(* Syntax tree nodes.  children is the sequence ast.iter_child_nodes       *)
(* yields, restricted to statements, handlers, Expr values and calls       *)
(* (names, constants of other places and argument lists are left out: no   *)
(* test of the program matches them).                                      *)
(*   name      FunctionDef: the function's name; Constant: its string      *)
(*   returns   FunctionDef: has a return annotation                        *)
(*   args      FunctionDef: for each of node.args.args, is it annotated    *)
(*   other_ann FunctionDef: a parameter outside node.args.args (positional *)
(*             only, keyword only, *args, **kwargs) is annotated           *)
(*   type      ExceptHandler: "None" for a bare handler                    *)
(*   func      Call: "Name" or "Attribute"; id: the name or the attribute  *)
(***************************************************************************)
Node(kind, lineno, end_lineno, children) ==
  [kind |-> kind, lineno |-> lineno, end_lineno |-> end_lineno,
   name |-> "", returns |-> FALSE, args |-> <<>>, other_ann |-> FALSE,
   type |-> "", func |-> "", id |-> "", children |-> children]

NoTree == Node("", 0, 0, <<>>)

\* ast.walk: breadth first
RECURSIVE walkq(_)
walkq(todo) ==
  IF todo = <<>> THEN <<>>
  ELSE <<Head(todo)>> \o walkq(Tail(todo) \o Head(todo).children)

walk(node) == walkq(<<node>>)

\* inspect.cleandoc on the docstrings of the model
cleandoc(s) == IF s \in {"", " "} THEN "" ELSE s

\* ast.get_docstring(node): "" stands for None as well (both are falsy)
get_docstring(node) ==
  IF /\ node.children # <<>>
     /\ node.children[1].kind = "Expr"
     /\ node.children[1].children[1].kind = "Constant"
  THEN cleandoc(node.children[1].children[1].name)
  ELSE ""

\* str.islower(): some cased character, and no uppercase one
islower(name) == name \in {"f", "calculate_sum", "process_data", "g2", "__init__"}

(***************************************************************************)
(* The analyzer object: issues, metrics, scores (__init__) and the rule    *)
(* analyzers.  A description is the text of the message with the name and  *)
(* the number formatted into it.                                           *)
(***************************************************************************)
Desc(text, name, num) == [text |-> text, name |-> name, num |-> num]

Issue(line, issue, description, severity) ==
  [line |-> line, issue |-> issue, description |-> description,
   severity |-> severity]

Map(s, F(_)) == [i \in 1..Len(s) |-> F(s[i])]

Count(s, Test(_)) == Len(SelectSeq(s, Test))

\* round(a / b) to the nearest integer, halves to the even neighbour
RoundDiv(a, b) ==
  LET q == a \div b
      r == a % b
  IN  IF 2 * r > b \/ (2 * r = b /\ q % 2 = 1) THEN q + 1 ELSE q

Ratio(a, b) == LET g == Gcd(a, b) IN [num |-> a \div g, den |-> b \div g]

init_issues == [critical |-> <<>>, high |-> <<>>, medium |-> <<>>, low |-> <<>>]

init_metrics ==
  [lines_of_code |-> 0, comment_lines |-> 0, blank_lines |-> 0,
   functions |-> 0, classes |-> 0, complexity |-> 0,
   max_function_length |-> 0, avg_function_length |-> Ratio(0, 1)]

init_scores ==
  [structure |-> 0, error_handling |-> 0, performance |-> 0, security |-> 0,
   maintainability |-> 0, best_practices |-> 0]

\* the keys of self.scores in insertion order
categories ==
  <<"structure", "error_handling", "performance", "security",
    "maintainability", "best_practices">>

IsFunctionDef(n) == n.kind = "FunctionDef"

\* an _analyze_metrics that assigns its counts where the code adds them
_analyze_metrics_assigning(ls, t, met) ==
  [met EXCEPT
     !.lines_of_code = Len(ls),
     !.blank_lines = Count(ls, LAMBDA l : strip(l) = <<>>),
     !.comment_lines =
        Count(ls, LAMBDA l : strip(l) # <<>> /\ startswith(strip(l), "#")),
     !.functions = Count(walk(t), IsFunctionDef),
     !.classes = Count(walk(t), LAMBDA n : n.kind = "ClassDef")]

_analyze_metrics(ls, t, met) ==
  [met EXCEPT
     !.lines_of_code = Len(ls),
     !.blank_lines = @ + Count(ls, LAMBDA l : strip(l) = <<>>),
     !.comment_lines =
        @ + Count(ls, LAMBDA l : strip(l) # <<>> /\ startswith(strip(l), "#")),
     !.functions = @ + Count(walk(t), IsFunctionDef),
     !.classes = @ + Count(walk(t), LAMBDA n : n.kind = "ClassDef")]

_check_duplication(ls) ==
  \E i \in 1..Len(ls) :
    LET stripped == strip(ls[i])
    IN  /\ stripped # <<>>
        /\ ~startswith(stripped, "#")
        /\ len(stripped) > 20
        /\ Cardinality({j \in 1..Len(ls) : strip(ls[j]) = stripped}) > 2

\* a function measured by the number of its lines, the first one included
_analyze_structure_inclusive(ls, t, iss, met) ==
  LET funcs == SelectSeq(walk(t), IsFunctionDef)
      length(n) == n.end_lineno - n.lineno + 1
      function_lengths == Map(funcs, length)
      long == SelectSeq(funcs, LAMBDA n : length(n) > 100)
      mid == SelectSeq(funcs, LAMBDA n : ~(length(n) > 100) /\ length(n) > 50)
      dup == _check_duplication(ls)
      score == 100 - 10 * Len(long) - 5 * Len(mid) - (IF dup THEN 10 ELSE 0)
  IN  [issues |->
         [iss EXCEPT
            !.high = @ \o Map(long, LAMBDA n :
               Issue(n.lineno, "Long Function",
                     Desc("Function is lines (>100)", n.name, length(n)), "HIGH")),
            !.medium = @ \o Map(mid, LAMBDA n :
               Issue(n.lineno, "Long Function",
                     Desc("Function is lines (>50)", n.name, length(n)), "MEDIUM"))
               \o (IF dup
                   THEN <<Issue(0, "Code Duplication",
                             Desc("Potential code duplication detected", "", 0),
                             "MEDIUM")>>
                   ELSE <<>>)],
       metrics |->
         IF function_lengths # <<>>
         THEN [met EXCEPT
                 !.max_function_length = MaxSeq(function_lengths),
                 !.avg_function_length =
                    Ratio(SumSeq(function_lengths), Len(function_lengths))]
         ELSE met,
       score |-> max(0, score)]

\* Each rule analyzer yields the issues and metrics it leaves and the score
\* it writes for its category.
_analyze_structure(ls, t, iss, met) ==
  LET funcs == SelectSeq(walk(t), IsFunctionDef)
      length(n) == n.end_lineno - n.lineno
      function_lengths == Map(funcs, length)
      long == SelectSeq(funcs, LAMBDA n : length(n) > 100)
      mid == SelectSeq(funcs, LAMBDA n : ~(length(n) > 100) /\ length(n) > 50)
      dup == _check_duplication(ls)
      score == 100 - 10 * Len(long) - 5 * Len(mid) - (IF dup THEN 10 ELSE 0)
  IN  [issues |->
         [iss EXCEPT
            !.high = @ \o Map(long, LAMBDA n :
               Issue(n.lineno, "Long Function",
                     Desc("Function is lines (>100)", n.name, length(n)), "HIGH")),
            !.medium = @ \o Map(mid, LAMBDA n :
               Issue(n.lineno, "Long Function",
                     Desc("Function is lines (>50)", n.name, length(n)), "MEDIUM"))
               \o (IF dup
                   THEN <<Issue(0, "Code Duplication",
                             Desc("Potential code duplication detected", "", 0),
                             "MEDIUM")>>
                   ELSE <<>>)],
       metrics |->
         IF function_lengths # <<>>
         THEN [met EXCEPT
                 !.max_function_length = MaxSeq(function_lengths),
                 !.avg_function_length =
                    Ratio(SumSeq(function_lengths), Len(function_lengths))]
         ELSE met,
       score |-> max(0, score)]

\* every handler taken for a bare one
IsBareExcept_any(n) == n.kind = "ExceptHandler"

\* isinstance(node, ast.ExceptHandler) and node.type is None
IsBareExcept(n) == n.kind = "ExceptHandler" /\ n.type = "None"

\* the guard reading a metric that _analyze_structure writes
has_functions_by_length(met) == met.max_function_length > 0

\* the guard without its test of the function count
has_functions_unguarded(met) == TRUE

\* self.metrics['functions'] > 0
has_functions(met) == met.functions > 0

_analyze_error_handling(ls, t, iss, met) ==
  LET bare == SelectSeq(walk(t), IsBareExcept)
      try_count == Count(walk(t), LAMBDA n : n.kind = "Try")
      none == try_count = 0 /\ has_functions(met)
      score == 100 - 20 * Len(bare) - (IF none THEN 20 ELSE 0)
  IN  [issues |->
         [iss EXCEPT
            !.high = @ \o Map(bare, LAMBDA n :
               Issue(n.lineno, "Bare Except Clause",
                     Desc("Using bare except: catches all exceptions including system exits",
                          "", 0), "HIGH")),
            !.medium = @ \o
               (IF none
                THEN <<Issue(0, "No Error Handling",
                          Desc("No try/except blocks found", "", 0), "MEDIUM")>>
                ELSE <<>>)],
       metrics |-> met,
       score |-> max(0, score)]

IsAppendStmt(child) ==
  /\ child.kind = "Expr"
  /\ child.children[1].kind = "Call"
  /\ child.children[1].func = "Attribute"
  /\ child.children[1].id = "append"

\* an issue and a penalty for every append statement of a for loop
_analyze_performance_per_append(ls, t, iss, met) ==
  LET loops == Flatten(Map(SelectSeq(walk(t), LAMBDA n : n.kind = "For"),
                 LAMBDA n : Map(SelectSeq(walk(n), IsAppendStmt), LAMBDA c : n)))
      score == 100 - 3 * Len(loops)
  IN  [issues |->
         [iss EXCEPT
            !.low = @ \o Map(loops, LAMBDA n :
               Issue(n.lineno, "List Comprehension Opportunity",
                     Desc("Consider using list comprehension", "", 0), "LOW"))],
       metrics |-> met,
       score |-> max(0, score)]

_analyze_performance(ls, t, iss, met) ==
  LET loops == SelectSeq(walk(t), LAMBDA n :
                 /\ n.kind = "For"
                 /\ \E i \in 1..Len(walk(n)) : IsAppendStmt(walk(n)[i]))
      score == 100 - 3 * Len(loops)
  IN  [issues |->
         [iss EXCEPT
            !.low = @ \o Map(loops, LAMBDA n :
               Issue(n.lineno, "List Comprehension Opportunity",
                     Desc("Consider using list comprehension", "", 0), "LOW"))],
       metrics |-> met,
       score |-> max(0, score)]

\* one issue for a line that matches, however many patterns match it
secret_issues_per_line(ls) ==
  Flatten([i \in 1..Len(ls) |->
    IF \E k \in 1..Len(secret_patterns) : re_search(secret_patterns[k], ls[i])
    THEN <<Issue(i, "Hardcoded Secret",
                 Desc("Potential hardcoded secret found", "", 0), "CRITICAL")>>
    ELSE <<>>])

\* for i, line in enumerate(self.lines, 1): for pattern in secret_patterns:
\* one issue at line i for each pattern that matches it
secret_issues(ls) ==
  Flatten([i \in 1..Len(ls) |->
    Map(SelectSeq(secret_patterns, LAMBDA pattern : re_search(pattern, ls[i])),
        LAMBDA pattern :
          Issue(i, "Hardcoded Secret",
                Desc("Potential hardcoded secret found", "", 0), "CRITICAL"))])

_analyze_security(ls, t, iss, met) ==
  LET secrets == secret_issues(ls)
      calls == SelectSeq(walk(t), LAMBDA n :
                 n.kind = "Call" /\ n.func = "Name" /\ n.id \in {"eval", "exec"})
      score == 100 - 30 * Len(secrets) - 30 * Len(calls)
  IN  [issues |->
         [iss EXCEPT
            !.critical = @ \o secrets \o Map(calls, LAMBDA n :
               Issue(n.lineno, "Dangerous Function",
                     Desc("Use of () is dangerous", n.id, 0), "CRITICAL"))],
       metrics |-> met,
       score |-> max(0, score)]

\* the docstring loop counting its functions in self.metrics['functions']
_analyze_maintainability_counting(ls, t, iss, met) ==
  LET funcs == SelectSeq(walk(t), IsFunctionDef)
      total_functions == Len(funcs)
      functions_with_docs == Count(funcs, LAMBDA n : get_docstring(n) # "")
      functions_with_hints ==
        Count(funcs, LAMBDA n :
          n.returns \/ \E i \in 1..Len(n.args) : n.args[i])
      low_doc == /\ total_functions > 0
                 /\ 100 * functions_with_docs < 50 * total_functions
      low_hint == /\ total_functions > 0
                  /\ 100 * functions_with_hints < 30 * total_functions
      score == 100 - (IF low_doc THEN 20 ELSE 0) - (IF low_hint THEN 10 ELSE 0)
  IN  [issues |->
         [iss EXCEPT
            !.medium = @ \o
               (IF low_doc
                THEN <<Issue(0, "Low Documentation",
                          Desc("Only % of functions have docstrings", "",
                               RoundDiv(100 * functions_with_docs, total_functions)),
                          "MEDIUM")>>
                ELSE <<>>),
            !.low = @ \o
               (IF low_hint
                THEN <<Issue(0, "Missing Type Hints",
                          Desc("Only % of functions have type hints", "",
                               RoundDiv(100 * functions_with_hints, total_functions)),
                          "LOW")>>
                ELSE <<>>)],
       metrics |-> [met EXCEPT !.functions = @ + total_functions],
       score |-> max(0, score)]

_analyze_maintainability(ls, t, iss, met) ==
  LET funcs == SelectSeq(walk(t), IsFunctionDef)
      total_functions == Len(funcs)
      functions_with_docs == Count(funcs, LAMBDA n : get_docstring(n) # "")
      functions_with_hints ==
        Count(funcs, LAMBDA n :
          n.returns \/ \E i \in 1..Len(n.args) : n.args[i])
      low_doc == /\ total_functions > 0
                 /\ 100 * functions_with_docs < 50 * total_functions
      low_hint == /\ total_functions > 0
                  /\ 100 * functions_with_hints < 30 * total_functions
      score == 100 - (IF low_doc THEN 20 ELSE 0) - (IF low_hint THEN 10 ELSE 0)
  IN  [issues |->
         [iss EXCEPT
            !.medium = @ \o
               (IF low_doc
                THEN <<Issue(0, "Low Documentation",
                          Desc("Only % of functions have docstrings", "",
                               RoundDiv(100 * functions_with_docs, total_functions)),
                          "MEDIUM")>>
                ELSE <<>>),
            !.low = @ \o
               (IF low_hint
                THEN <<Issue(0, "Missing Type Hints",
                          Desc("Only % of functions have type hints", "",
                               RoundDiv(100 * functions_with_hints, total_functions)),
                          "LOW")>>
                ELSE <<>>)],
       metrics |-> met,
       score |-> max(0, score)]

\* the low bucket assigned instead of appended to
_analyze_best_practices_overwriting(ls, t, iss, met) ==
  LET prints == SelectSeq(walk(t), LAMBDA n :
                  n.kind = "Call" /\ n.func = "Name" /\ n.id = "print")
      misnamed == SelectSeq(walk(t), LAMBDA n :
                    IsFunctionDef(n) /\ ~islower(n.name) /\ n.name # "__init__")
      score == 100 - 2 * Len(prints) - 3 * Len(misnamed)
  IN  [issues |->
         [iss EXCEPT
            !.low = Map(prints, LAMBDA n :
                 Issue(n.lineno, "Print Statement",
                       Desc("Consider using logging instead of print()", "", 0),
                       "LOW"))
               \o Map(misnamed, LAMBDA n :
                 Issue(n.lineno, "Naming Convention",
                       Desc("Function should use snake_case", n.name, 0), "LOW"))],
       metrics |-> met,
       score |-> max(0, score)]

_analyze_best_practices(ls, t, iss, met) ==
  LET prints == SelectSeq(walk(t), LAMBDA n :
                  n.kind = "Call" /\ n.func = "Name" /\ n.id = "print")
      misnamed == SelectSeq(walk(t), LAMBDA n :
                    IsFunctionDef(n) /\ ~islower(n.name) /\ n.name # "__init__")
      score == 100 - 2 * Len(prints) - 3 * Len(misnamed)
  IN  [issues |->
         [iss EXCEPT
            !.low = @ \o Map(prints, LAMBDA n :
                 Issue(n.lineno, "Print Statement",
                       Desc("Consider using logging instead of print()", "", 0),
                       "LOW"))
               \o Map(misnamed, LAMBDA n :
                 Issue(n.lineno, "Naming Convention",
                       Desc("Function should use snake_case", n.name, 0), "LOW"))],
       metrics |-> met,
       score |-> max(0, score)]

\* weights that sum to 1.05
weights_heavy ==
  [structure |-> 25, error_handling |-> 20, performance |-> 15,
   security |-> 15, maintainability |-> 15, best_practices |-> 15]

weights ==
  [structure |-> 20, error_handling |-> 20, performance |-> 15,
   security |-> 15, maintainability |-> 15, best_practices |-> 15]

_calculate_scores(sc) ==
  SumSeq([i \in 1..Len(categories) |-> sc[categories[i]] * weights[categories[i]]])

\* self.overall_score before _calculate_scores has assigned it
NoAttr == -1

\* the process has not ended
NoStatus == -1

total_issues(iss) ==
  Len(iss.critical) + Len(iss.high) + Len(iss.medium) + Len(iss.low)

\* round(self.overall_score, 1) gives tenths
generate_report(file_name, overall, sc, met, iss) ==
  [file |-> file_name,
   overall_score |-> RoundDiv(overall, 100),
   category_scores |-> sc,
   metrics |-> met,
   issues |-> iss,
   total_issues |-> total_issues(iss)]

_get_rating(score) ==
  IF score >= 90 THEN 5
  ELSE IF score >= 70 THEN 4
  ELSE IF score >= 50 THEN 3
  ELSE IF score >= 30 THEN 2
  ELSE 1

Excellent == "PRODUCTION READY - Excellent code quality!"
Good == "PRODUCTION READY - Good code quality with minor improvements needed"
NotReady == "NOT PRODUCTION READY - Critical issues must be fixed"
NeedsImprovement == "NEEDS IMPROVEMENT - Significant refactoring recommended"

\* the chain with the test for critical issues missing from its first branch
readiness_score_first(score, critical) ==
  IF score >= 90 THEN Excellent
  ELSE IF score >= 70 /\ critical = <<>> THEN Good
  ELSE IF critical # <<>> THEN NotReady
  ELSE NeedsImprovement

\* the if/elif chain of the "Production Readiness" section
readiness(score, critical) ==
  IF score >= 90 /\ critical = <<>> THEN Excellent
  ELSE IF score >= 70 /\ critical = <<>> THEN Good
  ELSE IF critical # <<>> THEN NotReady
  ELSE NeedsImprovement

\* `score` when the verdict is printed: the loop over category_scores.items()
\* has rebound the name to the value of its last item
score_at_verdict(rep) == rep.category_scores[categories[Len(categories)]]

print_report(rep) ==
  [file |-> rep.file,
   rating |-> _get_rating(rep.overall_score),
   verdict |-> readiness(score_at_verdict(rep), rep.issues.critical)]

(***************************************************************************)
(* Input files.  A file is its name, its text and what ast.parse answers   *)
(* for the text: ok with the Module node, or a SyntaxError with its lineno *)
(* (NoLine when the parser gives None).  Files are assembled from chunks   *)
(* of top-level statements; a chunk built at base b (the number of lines   *)
(* before it) gives its lines and its statement nodes with the line        *)
(* numbers the parser would give them.                                     *)
(***************************************************************************)
NoLine == -1

\* the token of the character U+0000
NUL == "\\0"

\* '\n'.join(ls)
join(ls) == Flatten([i \in 1..Len(ls) |-> IF i = 1 THEN ls[1] ELSE <<NL>> \o ls[i]])

Chunk(text, stmts) == [text |-> text, stmts |-> stmts]

NoChunk == Chunk(<<>>, <<>>)

Cat(a, Rest(_)) ==
  LET c == Rest(Len(a.text)) IN Chunk(a.text \o c.text, a.stmts \o c.stmts)

\* a text that ends with a newline, as editors write it
SourceFile(name, chunk) ==
  [name |-> name, code |-> join(chunk.text) \o <<NL>>, ok |-> TRUE,
   errline |-> 0, tree |-> Node("Module", 0, 0, chunk.stmts)]

BrokenFile(name, code, errline) ==
  [name |-> name, code |-> code, ok |-> FALSE, errline |-> errline,
   tree |-> NoTree]

Indent == "    "

PassLine == <<Indent, "pass">>

ExprStmt(lineno, value) == Node("Expr", lineno, lineno, <<value>>)

CallNode(lineno, func, id) ==
  [Node("Call", lineno, lineno, <<>>) EXCEPT !.func = func, !.id = id]

Constant(lineno, s) == [Node("Constant", lineno, lineno, <<>>) EXCEPT !.name = s]

\* one source line; stmt is the kind of the statement it is ("" for none)
LineSample(toks, stmt) == [toks |-> toks, stmt |-> stmt]

LineSamples ==
  { LineSample(<<>>, ""),
    LineSample(<<"#", " ", "password", "=", "\"", "x", "\"">>, ""),
    LineSample(<<"password", " ", "=", " ", "\"", "x", "\"">>, "Assign"),
    LineSample(<<"PASSWORD", "=", "'", "'">>, "Assign"),
    LineSample(<<"Token", " ", "=", " ", "\"", "secret", "=", "'", "x", "'", "\"">>,
               "Assign"),
    LineSample(<<"password", " ", "=", "=", " ", "\"", "x", "\"">>, "Expr"),
    LineSample(<<"api_key", "=", "x">>, "Assign"),
    LineSample(<<"secret", "_", "token", "\t", "=", " ", "'", "x", "'">>, "Assign") }

RECURSIVE LinesChunk(_, _)
LinesChunk(b, ls) ==
  IF ls = <<>> THEN NoChunk
  ELSE Cat(Chunk(<<ls[1].toks>>,
                 IF ls[1].stmt = "" THEN <<>>
                 ELSE <<Node(ls[1].stmt, b + 1, b + 1, <<>>)>>),
           LAMBDA c : LinesChunk(c + b, Tail(ls)))

\* name(...) as a statement of its own
CallChunk(b, id) ==
  Chunk(<<<<id, "(", "x", ")">>>>,
        <<ExprStmt(b + 1, CallNode(b + 1, "Name", id))>>)

\* def name(...): with a body of n lines: the docstring if doc is not
\* "none", blank lines, and a closing pass
FuncSample(name, n, doc, returns, args, other_ann) ==
  [name |-> name, n |-> n, doc |-> doc, returns |-> returns, args |-> args,
   other_ann |-> other_ann]

FuncSamples ==
  { FuncSample("f", 1, "none", FALSE, <<>>, FALSE),
    FuncSample("calculate_sum", 51, "Adds.", TRUE, <<FALSE>>, FALSE),
    FuncSample("VeryLongFunctionName", 101, "none", FALSE, <<FALSE, TRUE>>, FALSE),
    FuncSample("__init__", 50, " ", FALSE, <<FALSE>>, TRUE),
    FuncSample("g2", 100, "Does it.", FALSE, <<>>, FALSE),
    FuncSample("_", 2, "", FALSE, <<>>, FALSE) }

DefChunk(b, p) ==
  LET hasdoc == p.doc # "none"
      blanks == p.n - 1 - (IF hasdoc /\ p.n > 1 THEN 1 ELSE 0)
      params == Flatten([i \in 1..Len(p.args) |->
                  (IF i = 1 THEN <<>> ELSE <<",", " ">>)
                  \o (IF p.args[i] THEN <<"a", ":", " ", "int">> ELSE <<"b">>)])
                \o (IF p.other_ann
                    THEN (IF p.args = <<>> THEN <<>> ELSE <<",", " ">>)
                         \o <<"*", "rest", ":", " ", "int">>
                    ELSE <<>>)
      header == <<"def", " ", p.name, "(">> \o params \o <<")">>
                \o (IF p.returns THEN <<" ", "->", " ", "int">> ELSE <<>>)
                \o <<":">>
  IN  Chunk(<<header>>
              \o (IF hasdoc THEN <<<<Indent, "\"", p.doc, "\"">>>> ELSE <<>>)
              \o [i \in 1..blanks |-> <<>>]
              \o (IF hasdoc /\ p.n = 1 THEN <<>> ELSE <<PassLine>>),
            <<[Node("FunctionDef", b + 1, b + 1 + p.n,
                    (IF hasdoc
                     THEN <<ExprStmt(b + 2, Constant(b + 2, p.doc))>>
                     ELSE <<>>)
                    \o (IF hasdoc /\ p.n = 1 THEN <<>>
                        ELSE <<Node("Pass", b + 1 + p.n, b + 1 + p.n, <<>>)>>))
                 EXCEPT !.name = p.name, !.returns = p.returns,
                        !.args = p.args, !.other_ann = p.other_ann]>>)

RECURSIVE DefsChunk(_, _)
DefsChunk(b, ps) ==
  IF ps = <<>> THEN NoChunk
  ELSE Cat(DefChunk(b, ps[1]), LAMBDA c : DefsChunk(c + b, Tail(ps)))

\* one try statement for each element of bare: try: pass, then "except:"
\* (TRUE) or "except Exception:" (FALSE), then pass
TryChunk(b, bare) ==
  LET k == Len(bare)
      at(i) == b + 4 * (i - 1)
  IN  Chunk(Flatten([i \in 1..k |->
              <<<<"try", ":">>, PassLine,
                IF bare[i] THEN <<"except", ":">>
                ELSE <<"except", " ", "Exception", ":">>,
                PassLine>>]),
            [i \in 1..k |->
               Node("Try", at(i) + 1, at(i) + 4,
                    <<Node("Pass", at(i) + 2, at(i) + 2, <<>>),
                      [Node("ExceptHandler", at(i) + 3, at(i) + 4,
                            <<Node("Pass", at(i) + 4, at(i) + 4, <<>>)>>)
                         EXCEPT !.type = IF bare[i] THEN "None" ELSE "Name"]>>)])

\* the statements of a loop body: a call of a method named append as a
\* statement, the call of another method, the call of a function named
\* append, an assignment of the value of an append call, and pass
AppendStmt(lineno) == ExprStmt(lineno, CallNode(lineno, "Attribute", "append"))

BodyStmts == {"append", "extend", "name", "assign", "pass"}

BodyLine(stmt) ==
  CASE stmt = "append" -> <<"z", ".", "append", "(", "x", ")">>
    [] stmt = "extend" -> <<"z", ".", "extend", "(", "x", ")">>
    [] stmt = "name" -> <<"append", "(", "x", ")">>
    [] stmt = "assign" -> <<"w", " ", "=", " ", "z", ".", "append", "(", "x", ")">>
    [] stmt = "pass" -> <<"pass">>

BodyNode(stmt, lineno) ==
  CASE stmt = "append" -> AppendStmt(lineno)
    [] stmt = "extend" -> ExprStmt(lineno, CallNode(lineno, "Attribute", "extend"))
    [] stmt = "name" -> ExprStmt(lineno, CallNode(lineno, "Name", "append"))
    [] stmt = "assign" ->
         Node("Assign", lineno, lineno, <<CallNode(lineno, "Attribute", "append")>>)
    [] stmt = "pass" -> Node("Pass", lineno, lineno, <<>>)

\* a loop of the given kind ("For" or "While") with the statements of body
\* (not empty) as its body, wrapped in an outer for loop when nested
LoopChunk(b, kind, body, nested) ==
  LET d == IF nested THEN 1 ELSE 0
      m == Len(body)
      head == IF kind = "For" THEN <<"for", " ", "x", " ", "in", " ", "y", ":">>
              ELSE <<"while", " ", "y", ":">>
      ind == IF nested THEN <<Indent>> ELSE <<>>
      inner == Node(kind, b + d + 1, b + d + 1 + m,
                    [i \in 1..m |-> BodyNode(body[i], b + d + 1 + i)])
  IN  Chunk((IF nested THEN <<<<"for", " ", "y", " ", "in", " ", "z", ":">>>>
             ELSE <<>>)
              \o <<ind \o head>>
              \o [i \in 1..m |-> ind \o <<Indent>> \o BodyLine(body[i])],
            <<IF nested THEN Node("For", b + 1, b + 1 + d + m, <<inner>>) ELSE inner>>)

(***************************************************************************)
(* The corpus of the directory runs.                                       *)
(***************************************************************************)
\* src/examples/sample_code.py
SampleCode ==
  [name |-> "sample_code.py",
   code |-> join(
     << <<"#", " ", "Example Python file for testing the analyzer">>,
        <<>>,
        <<"def", " ", "calculate_sum", "(", "numbers", ")", ":">>,
        <<Indent, "result", " ", "=", " ", "0">>,
        <<Indent, "for", " ", "num", " ", "in", " ", "numbers", ":">>,
        <<Indent, Indent, "result", " ", "+=", " ", "num">>,
        <<Indent, "return", " ", "result">>,
        <<>>,
        <<"def", " ", "process_data", "(", "data", ")", ":">>,
        <<Indent, "try", ":">>,
        <<Indent, Indent, "return", " ", "data", " ", "*", " ", "2">>,
        <<Indent, "except", ":", " ", " ", "#", " ", "Bare except - will be flagged">>,
        <<Indent, Indent, "print", "(", "\"", "Error occurred", "\"", ")", " ", " ",
          "#", " ", "Print instead of logging - will be flagged">>,
        <<Indent, Indent, "return", " ", "None">>,
        <<>>,
        <<"password", " ", "=", " ", "\"", "admin123", "\"", " ", " ", "#", " ",
          "Hardcoded secret - will be flagged">>,
        <<>>,
        <<"class", " ", "MyClass", ":">>,
        <<Indent, "def", " ", "VeryLongFunctionName", "(", "self", ")", ":", " ", " ",
          "#", " ", "Bad naming - will be flagged">>,
        <<Indent, Indent, "pass">> >>),
   ok |-> TRUE,
   errline |-> 0,
   tree |->
     Node("Module", 0, 0,
       << [Node("FunctionDef", 3, 7,
             << Node("Assign", 4, 4, <<>>),
                Node("For", 5, 6, <<Node("AugAssign", 6, 6, <<>>)>>),
                Node("Return", 7, 7, <<>>) >>)
             EXCEPT !.name = "calculate_sum", !.args = <<FALSE>>],
          [Node("FunctionDef", 9, 14,
             << Node("Try", 10, 14,
                  << Node("Return", 11, 11, <<>>),
                     [Node("ExceptHandler", 12, 14,
                        << ExprStmt(13, CallNode(13, "Name", "print")),
                           Node("Return", 14, 14, <<>>) >>)
                        EXCEPT !.type = "None"] >>) >>)
             EXCEPT !.name = "process_data", !.args = <<FALSE>>],
          Node("Assign", 16, 16, <<>>),
          Node("ClassDef", 18, 20,
             << [Node("FunctionDef", 19, 20, <<Node("Pass", 20, 20, <<>>)>>)
                   EXCEPT !.name = "VeryLongFunctionName", !.args = <<FALSE>>] >>) >>)]

Documented ==
  FuncSample("process_data", 3, "Does it.", TRUE, <<TRUE>>, FALSE)

RECURSIVE CallsChunk(_, _, _)
CallsChunk(b, id, n) ==
  IF n = 0 THEN NoChunk
  ELSE Cat(CallChunk(b, id), LAMBDA c : CallsChunk(c + b, id, n - 1))

Corpus ==
  { SampleCode,
    BrokenFile("broken.py", <<"def", " ", "f", "(", ":", NL>>, 1),
    SourceFile("bare3.py", TryChunk(0, <<TRUE, TRUE, TRUE>>)),
    SourceFile("plain.py", DefChunk(0, FuncSample("f", 1, "none", FALSE, <<>>, FALSE))),
    SourceFile("loop.py",
      Cat(DefChunk(0, CHOOSE p \in FuncSamples : p.n = 101),
          LAMBDA b : Cat(LoopChunk(b, "For", <<"append", "append">>, TRUE),
                         LAMBDA c : TryChunk(b + c, <<TRUE>>)))) }

(***************************************************************************)
(* Generated files, analyzed one at a time.                                *)
(***************************************************************************)
\* handlers: up to MaxHandlers try statements, each with a bare or a typed
\* handler, after a function or not
ErrFiles ==
  { SourceFile("err.py", Cat(pre, LAMBDA b : TryChunk(b, bare))) :
      pre \in {NoChunk, DefChunk(0, Documented)},
      bare \in SeqsUpTo(BOOLEAN, MaxHandlers) }

\* lines: up to MaxLines source lines, then possibly a call
SecFiles ==
  { SourceFile("sec.py",
      Cat(LinesChunk(0, ls),
          LAMBDA b : IF id = "" THEN NoChunk ELSE CallChunk(b, id))) :
      ls \in SeqsUpTo(LineSamples, MaxLines),
      id \in {"", "eval", "exec", "print", "len"} }

\* functions: up to MaxFuncs function definitions
FunFiles ==
  { SourceFile("fun.py", DefsChunk(0, ps)) : ps \in SeqsUpTo(FuncSamples, MaxFuncs) }

\* loops: a for or a while loop of up to MaxStmts statements, nested or not
LoopFiles ==
  { SourceFile("loops.py", LoopChunk(0, kind, body, nested)) :
      kind \in {"For", "While"},
      body \in SeqsUpTo(BodyStmts, MaxStmts) \ {<<>>},
      nested \in BOOLEAN }

\* repeated lines: a line of 25 characters a times, once more with an indent
\* if ind, and three times each, if chosen, a line of 20 characters, a
\* comment and another long line; after a function of 101 lines or not
LongLine == <<"result", " ", "=", " ", "compute_total", "(", "x", ")">>

OtherLine == <<"total", " ", "=", " ", "compute_total", "(", "y", ")">>

RepeatChunk(b, toks, stmt, k) ==
  LinesChunk(b, [i \in 1..k |-> LineSample(toks, stmt)])

\* k times the assignment of a call of compute_total
CallLines(b, toks, k) ==
  Chunk([i \in 1..k |-> toks],
        [i \in 1..k |->
           Node("Assign", b + i, b + i,
                <<CallNode(b + i, "Name", "compute_total")>>)])

\* the same assignment under an if
IfChunk(b, toks) ==
  Chunk(<< <<"if", " ", "x", ":">>, <<Indent>> \o toks >>,
        <<Node("If", b + 1, b + 2,
               <<Node("Assign", b + 2, b + 2,
                      <<CallNode(b + 2, "Name", "compute_total")>>)>>)>>)

DupChunk(b, a, ind, short, comment, other) ==
  Cat(CallLines(b, LongLine, a), LAMBDA c1 :
  Cat(IF ind THEN IfChunk(b + c1, LongLine) ELSE NoChunk, LAMBDA c2 :
  Cat(RepeatChunk(b + c1 + c2, <<"value", " ", "=", " ", "123456789012">>,
                  "Assign", IF short THEN 3 ELSE 0), LAMBDA c3 :
  Cat(RepeatChunk(b + c1 + c2 + c3,
                  <<"#", " ", "result = compute_total(x)">>, "",
                  IF comment THEN 3 ELSE 0), LAMBDA c4 :
      CallLines(b + c1 + c2 + c3 + c4, OtherLine, IF other THEN 3 ELSE 0)))))

DupFiles ==
  { SourceFile("dup.py", Cat(pre, LAMBDA b : DupChunk(b, a, ind, short, comment, other))) :
      pre \in {NoChunk, DefChunk(0, CHOOSE p \in FuncSamples : p.n = 101)},
      a \in 0..MaxRepeats, ind \in BOOLEAN, short \in BOOLEAN,
      comment \in BOOLEAN, other \in BOOLEAN }

\* k function definitions, each inside the one before it, the innermost with
\* a body of blank lines and a closing pass on line last
RECURSIVE NestedDef(_, _, _)
NestedDef(i, k, last) ==
  [Node("FunctionDef", i, last,
        IF i = k THEN <<Node("Pass", last, last, <<>>)>>
        ELSE <<NestedDef(i + 1, k, last)>>)
     EXCEPT !.name = "f"]

NestChunk(k, blanks) ==
  Chunk([i \in 1..k |->
           [j \in 1..(i - 1) |-> Indent] \o <<"def", " ", "f", "(", ")", ":">>]
          \o [i \in 1..blanks |-> <<>>]
          \o <<[j \in 1..k |-> Indent] \o <<"pass">>>>,
        <<NestedDef(1, k, k + blanks + 1)>>)

\* an empty file, a file with nothing to report, six print calls, eleven
\* nested functions of more than 100 lines each, a text with a null
\* character (ast.parse raises a SyntaxError whose lineno is None)
EdgeFiles ==
  { [name |-> "empty.py", code |-> <<>>, ok |-> TRUE, errline |-> 0,
     tree |-> Node("Module", 0, 0, <<>>)],
    SourceFile("clean.py",
      Cat(DefChunk(0, Documented), LAMBDA b : TryChunk(b, <<FALSE>>))),
    SourceFile("prints.py", CallsChunk(0, "print", 6)),
    SourceFile("nested.py", NestChunk(11, 100)),
    BrokenFile("nul.py", <<"x", " ", "=", " ", "1", NUL, NL>>, NoLine) }

GenFiles ==
  ErrFiles \cup SecFiles \cup FunFiles \cup LoopFiles \cup DupFiles \cup EdgeFiles

(***************************************************************************)
(* Command lines.  args.file and args.directory are None (the option is    *)
(* not given), a path that does not exist, the path of a file, or the path *)
(* of a directory with the files os.walk finds under it, in its order.     *)
(***************************************************************************)
Path(kind, file, entries) == [kind |-> kind, file |-> file, entries |-> entries]

NoFileRecord ==
  [name |-> "", code |-> <<>>, ok |-> FALSE, errline |-> 0, tree |-> NoTree]

None == Path("None", NoFileRecord, <<>>)

MissingPath == Path("missing", NoFileRecord, <<>>)

FilePath(f) == Path("file", f, <<>>)

DirectoryPath(entries) == Path("directory", NoFileRecord, entries)

\* the truth value of args.file, args.directory
Given(a) == a.kind # "None"

\* os.path.exists
exists(a) == a.kind \in {"file", "directory"}

\* a file that is not Python source
Notes ==
  [name |-> "notes.txt", code |-> <<"to do", NL>>, ok |-> FALSE, errline |-> 1,
   tree |-> NoTree]

\* file.endswith('.py') on the names of the model
endswith_py(name) == name # "notes.txt"

CommandLine(file, directory) == [file |-> file, directory |-> directory]

\* one generated file; a directory of up to MaxFiles files; a file and a
\* directory of at most one file; each path may be missing or not given
CommandLines ==
  {CommandLine(FilePath(f), None) : f \in GenFiles \cup Corpus}
  \cup {CommandLine(None, DirectoryPath(d)) :
          d \in SeqsUpTo(Corpus \cup {Notes}, MaxFiles)}
  \cup {CommandLine(f, d) :
          f \in {None, MissingPath} \cup {FilePath(x) : x \in Corpus},
          d \in {None, MissingPath}
                \cup {DirectoryPath(e) : e \in SeqsUpTo(Corpus \cup {Notes}, 1)}}

\* the command lines with at most one file of the corpus
SmallCommandLines ==
  {CommandLine(f, d) :
     f \in {None, MissingPath} \cup {FilePath(x) : x \in Corpus},
     d \in {None, MissingPath}} 
  \cup {CommandLine(None, DirectoryPath(<<x>>)) : x \in Corpus \cup {Notes}}

(***************************************************************************)
(* State.                                                                  *)
(*   args                    main(): the parsed command line               *)
(*   files_to_analyze, idx   main(): the list of files and the number of   *)
(*                           iterations of the loop begun                  *)
(*   pc                      where main() is                               *)
(*   calls                   the calls of analyze() on the current         *)
(*                           analyzer, the one under way included          *)
(*   code, lines, tree, issues, metrics, scores, overall_score             *)
(*                           the attributes of the current analyzer        *)
(*   ran                     the rule analyzers that the call of analyze() *)
(*                           under way has called                          *)
(*   reports                 the reports analyze() has returned            *)
(*   output                  what print_report has printed, per report     *)
(***************************************************************************)
VARIABLES args, files_to_analyze, idx, pc, calls, code, lines, tree, issues,
          metrics, scores, overall_score, ran, reports, output

vars == <<args, files_to_analyze, idx, pc, calls, code, lines, tree, issues,
          metrics, scores, overall_score, ran, reports, output>>

analyzer == <<code, lines, tree, issues, metrics, scores, overall_score, ran>>

\* the rule analyzers in the order analyze() calls them
order == categories

Rules == {order[i] : i \in 1..Len(order)}

file_path == files_to_analyze[idx]

NoAnalyzer ==
  /\ code = <<>>
  /\ lines = <<>>
  /\ tree = NoTree
  /\ issues = init_issues
  /\ metrics = init_metrics
  /\ scores = init_scores
  /\ overall_score = NoAttr
  /\ ran = {}

\* main() is entered with the command line a
Start(a) ==
  /\ args = a
  /\ files_to_analyze = <<>>
  /\ idx = 0
  /\ pc = "main"
  /\ calls = 0
  /\ NoAnalyzer
  /\ reports = <<>>
  /\ output = <<>>

Init == \E a \in CommandLines : Start(a)

\* if not args.file and not args.directory: parser.print_help(); sys.exit(1)
Usage ==
  /\ pc = "main"
  /\ ~Given(args.file)
  /\ ~Given(args.directory)
  /\ pc' = "exited"
  /\ UNCHANGED <<args, calls, files_to_analyze, idx, analyzer, reports, output>>

\* one of the two paths is given: files_to_analyze = []
CollectFiles ==
  /\ pc = "main"
  /\ Given(args.file) \/ Given(args.directory)
  /\ files_to_analyze' = <<>>
  /\ pc' = "file"
  /\ UNCHANGED <<args, calls, idx, analyzer, reports, output>>

\* if args.file: the path does not exist: sys.exit(1)
FileNotFound ==
  /\ pc = "file"
  /\ Given(args.file)
  /\ ~exists(args.file)
  /\ pc' = "exited"
  /\ UNCHANGED <<args, calls, files_to_analyze, idx, analyzer, reports, output>>

\* if args.file: files_to_analyze.append(args.file)
AppendFile ==
  /\ pc = "file"
  /\ Given(args.file)
  /\ exists(args.file)
  /\ files_to_analyze' = Append(files_to_analyze, args.file.file)
  /\ pc' = "directory"
  /\ UNCHANGED <<args, calls, idx, analyzer, reports, output>>

\* if args.file: not taken
NoFile ==
  /\ pc = "file"
  /\ ~Given(args.file)
  /\ pc' = "directory"
  /\ UNCHANGED <<args, calls, files_to_analyze, idx, analyzer, reports, output>>

\* a DirectoryNotFound that prints its message and goes on
DirectoryNotFound_no_exit ==
  /\ pc = "directory"
  /\ Given(args.directory)
  /\ ~exists(args.directory)
  /\ pc' = "loop"
  /\ UNCHANGED <<args, calls, files_to_analyze, idx, analyzer, reports, output>>

\* if args.directory: the path does not exist: sys.exit(1)
DirectoryNotFound ==
  /\ pc = "directory"
  /\ Given(args.directory)
  /\ ~exists(args.directory)
  /\ pc' = "exited"
  /\ UNCHANGED <<args, calls, files_to_analyze, idx, analyzer, reports, output>>

\* if args.directory: os.walk, keeping the files whose name ends with .py
WalkDirectory ==
  /\ pc = "directory"
  /\ Given(args.directory)
  /\ exists(args.directory)
  /\ files_to_analyze' =
       files_to_analyze
       \o SelectSeq(args.directory.entries, LAMBDA f : endswith_py(f.name))
  /\ pc' = "loop"
  /\ UNCHANGED <<args, calls, idx, analyzer, reports, output>>

\* if args.directory: not taken
NoDirectory ==
  /\ pc = "directory"
  /\ ~Given(args.directory)
  /\ pc' = "loop"
  /\ UNCHANGED <<args, calls, files_to_analyze, idx, analyzer, reports, output>>

\* a constructor that leaves the issue lists of the previous analyzer in place
Construct_shared_issues ==
  /\ pc = "loop"
  /\ idx < Len(files_to_analyze)
  /\ idx' = idx + 1
  /\ code' = <<>>
  /\ lines' = <<>>
  /\ tree' = NoTree
  /\ metrics' = init_metrics
  /\ scores' = init_scores
  /\ overall_score' = NoAttr
  /\ ran' = {}
  /\ calls' = 0
  /\ pc' = "analyze"
  /\ UNCHANGED <<args, files_to_analyze, issues, reports, output>>

\* for file_path in files_to_analyze: analyzer = CodeQualityAnalyzer(file_path)
Construct ==
  /\ pc = "loop"
  /\ idx < Len(files_to_analyze)
  /\ idx' = idx + 1
  /\ code' = <<>>
  /\ lines' = <<>>
  /\ tree' = NoTree
  /\ issues' = init_issues
  /\ metrics' = init_metrics
  /\ scores' = init_scores
  /\ overall_score' = NoAttr
  /\ ran' = {}
  /\ calls' = 0
  /\ pc' = "analyze"
  /\ UNCHANGED <<args, files_to_analyze, reports, output>>

\* analyzer.analyze() is entered: it reads the file
Read ==
  /\ pc = "analyze"
  /\ calls' = calls + 1
  /\ code' = file_path.code
  /\ lines' = split(file_path.code)
  /\ pc' = "parse"
  /\ UNCHANGED <<args, files_to_analyze, idx, tree, issues, metrics, scores,
                 overall_score, ran, reports, output>>

\* analyze(): ast.parse succeeds
Parse ==
  /\ pc = "parse"
  /\ file_path.ok
  /\ tree' = file_path.tree
  /\ pc' = "metrics"
  /\ UNCHANGED <<args, calls, files_to_analyze, idx, code, lines, issues, metrics, scores,
                 overall_score, ran, reports, output>>

\* a handler without its return: the analysis goes on after the issue
ParseError_falls_through ==
  /\ pc = "parse"
  /\ ~file_path.ok
  /\ issues' = [issues EXCEPT !.critical =
                  Append(@, Issue(file_path.errline, "Syntax Error",
                                  Desc("invalid syntax", "", file_path.errline),
                                  "CRITICAL"))]
  /\ pc' = "metrics"
  /\ UNCHANGED <<args, calls, files_to_analyze, idx, code, lines, tree, metrics, scores,
                 overall_score, ran, reports, output>>

\* analyze(): ast.parse raises SyntaxError; the handler records the issue and
\* goes on to return self.generate_report()
ParseError ==
  /\ pc = "parse"
  /\ ~file_path.ok
  /\ issues' = [issues EXCEPT !.critical =
                  Append(@, Issue(file_path.errline, "Syntax Error",
                                  Desc("invalid syntax", "", file_path.errline),
                                  "CRITICAL"))]
  /\ pc' = "report"
  /\ UNCHANGED <<args, calls, files_to_analyze, idx, code, lines, tree, metrics, scores,
                 overall_score, ran, reports, output>>

AnalyzeMetrics ==
  /\ pc = "metrics"
  /\ metrics' = _analyze_metrics(lines, tree, metrics)
  /\ pc' = "rules"
  /\ UNCHANGED <<args, calls, files_to_analyze, idx, code, lines, tree, issues, scores,
                 overall_score, ran, reports, output>>

rule(a, ls, t, iss, met) ==
  CASE a = "structure" -> _analyze_structure(ls, t, iss, met)
    [] a = "error_handling" -> _analyze_error_handling(ls, t, iss, met)
    [] a = "performance" -> _analyze_performance(ls, t, iss, met)
    [] a = "security" -> _analyze_security(ls, t, iss, met)
    [] a = "maintainability" -> _analyze_maintainability(ls, t, iss, met)
    [] a = "best_practices" -> _analyze_best_practices(ls, t, iss, met)

\* the analyzer after the calls of the rule analyzers of ord, in that order
RECURSIVE run(_, _, _, _)
run(ord, ls, t, st) ==
  IF ord = <<>> THEN st
  ELSE LET r == rule(Head(ord), ls, t, st.issues, st.metrics)
       IN  run(Tail(ord), ls, t,
               [issues |-> r.issues, metrics |-> r.metrics,
                scores |-> [st.scores EXCEPT ![Head(ord)] = r.score]])

\* the report of analyze() on a fresh analyzer for a file that parses, with
\* the rule analyzers called in the order ord
analyze(f, ord) ==
  LET ls == split(f.code)
      st == run(ord, ls, f.tree,
                [issues |-> init_issues,
                 metrics |-> _analyze_metrics(ls, f.tree, init_metrics),
                 scores |-> init_scores])
  IN  generate_report(f.name, _calculate_scores(st.scores), st.scores,
                      st.metrics, st.issues)

\* one call self._analyze_<a>()
Rule(a) ==
  /\ pc = "rules"
  /\ a \notin ran
  /\ LET r == rule(a, lines, tree, issues, metrics)
     IN  /\ issues' = r.issues
         /\ metrics' = r.metrics
         /\ scores' = [scores EXCEPT ![a] = r.score]
  /\ ran' = ran \cup {a}
  /\ pc' = IF ran' = Rules THEN "calculate" ELSE "rules"
  /\ UNCHANGED <<args, calls, files_to_analyze, idx, code, lines, tree, overall_score,
                 reports, output>>

\* the call of a comes when exactly the calls written before it are done
InOrder(a) ==
  \E i \in 1..Len(order) : order[i] = a /\ ran = {order[j] : j \in 1..(i - 1)}

AnalyzeStructure == InOrder("structure") /\ Rule("structure")

AnalyzeErrorHandling == InOrder("error_handling") /\ Rule("error_handling")

AnalyzePerformance == InOrder("performance") /\ Rule("performance")

AnalyzeSecurity == InOrder("security") /\ Rule("security")

AnalyzeMaintainability == InOrder("maintainability") /\ Rule("maintainability")

AnalyzeBestPractices == InOrder("best_practices") /\ Rule("best_practices")

CalculateScores ==
  /\ pc = "calculate"
  /\ overall_score' = _calculate_scores(scores)
  /\ pc' = "report"
  /\ UNCHANGED <<args, calls, files_to_analyze, idx, code, lines, tree, issues, metrics,
                 scores, ran, reports, output>>

\* return self.generate_report()
GenerateReport ==
  /\ pc = "report"
  /\ overall_score # NoAttr
  /\ reports' = Append(reports,
       generate_report(file_path.name, overall_score, scores, metrics, issues))
  /\ pc' = "print"
  /\ UNCHANGED <<args, calls, files_to_analyze, idx, analyzer, output>>

\* generate_report reads self.overall_score, which only _calculate_scores
\* assigns: AttributeError, caught neither by analyze() nor by main()
RaiseAttributeError ==
  /\ pc = "report"
  /\ overall_score = NoAttr
  /\ pc' = "raised"
  /\ UNCHANGED <<args, calls, files_to_analyze, idx, analyzer, reports, output>>

\* analyzer.print_report(report)
PrintReport ==
  /\ pc = "print"
  /\ output' = Append(output, print_report(reports[Len(reports)]))
  /\ pc' = "loop"
  /\ UNCHANGED <<args, calls, files_to_analyze, idx, analyzer, reports>>

\* the loop is over: main() returns
Exit ==
  /\ pc = "loop"
  /\ idx = Len(files_to_analyze)
  /\ pc' = "done"
  /\ UNCHANGED <<args, calls, files_to_analyze, idx, analyzer, reports, output>>

Next ==
  \/ Usage
  \/ CollectFiles
  \/ FileNotFound
  \/ AppendFile
  \/ NoFile
  \/ DirectoryNotFound
  \/ WalkDirectory
  \/ NoDirectory
  \/ Construct
  \/ Read
  \/ Parse
  \/ ParseError
  \/ AnalyzeMetrics
  \/ AnalyzeStructure
  \/ AnalyzeErrorHandling
  \/ AnalyzePerformance
  \/ AnalyzeSecurity
  \/ AnalyzeMaintainability
  \/ AnalyzeBestPractices
  \/ CalculateScores
  \/ GenerateReport
  \/ RaiseAttributeError
  \/ PrintReport
  \/ Exit

Spec == Init /\ [][Next]_vars

(***************************************************************************)
(* The rule analyzers called in any order: analyze() with lines 74-79      *)
(* permuted, on the files of the corpus.                                   *)
(***************************************************************************)
InitAnyOrder == \E a \in SmallCommandLines : Start(a)

AnalyzeAnyRule == \E a \in Rules : Rule(a)

NextAnyOrder ==
  \/ Usage
  \/ CollectFiles
  \/ FileNotFound
  \/ AppendFile
  \/ NoFile
  \/ DirectoryNotFound
  \/ WalkDirectory
  \/ NoDirectory
  \/ Construct
  \/ Read
  \/ Parse
  \/ ParseError
  \/ AnalyzeMetrics
  \/ AnalyzeAnyRule
  \/ CalculateScores
  \/ GenerateReport
  \/ RaiseAttributeError
  \/ PrintReport
  \/ Exit

SpecAnyOrder == InitAnyOrder /\ [][NextAnyOrder]_vars

(***************************************************************************)
(* An analyzer used again: a caller that, once analyze() has returned, may *)
(* call it again on the same analyzer, up to MaxCalls calls in all.  The   *)
(* file is the same and has not changed.  Nothing in analyze() or in the   *)
(* steps it calls assigns the attributes anew, so each call goes on from   *)
(* what the one before has left.                                           *)
(***************************************************************************)
ReuseCommandLines ==
  SmallCommandLines \cup {CommandLine(FilePath(f), None) : f \in GenFiles}

InitReuse == \E a \in ReuseCommandLines : Start(a)

\* report = analyzer.analyze(), once more
AnalyzeAgain ==
  /\ pc = "print"
  /\ calls < MaxCalls
  /\ ran' = {}
  /\ pc' = "analyze"
  /\ UNCHANGED <<args, calls, files_to_analyze, idx, code, lines, tree, issues,
                 metrics, scores, overall_score, reports, output>>

NextReuse ==
  \/ Usage
  \/ CollectFiles
  \/ FileNotFound
  \/ AppendFile
  \/ NoFile
  \/ DirectoryNotFound
  \/ WalkDirectory
  \/ NoDirectory
  \/ Construct
  \/ Read
  \/ Parse
  \/ ParseError
  \/ AnalyzeMetrics
  \/ AnalyzeStructure
  \/ AnalyzeErrorHandling
  \/ AnalyzePerformance
  \/ AnalyzeSecurity
  \/ AnalyzeMaintainability
  \/ AnalyzeBestPractices
  \/ CalculateScores
  \/ GenerateReport
  \/ RaiseAttributeError
  \/ AnalyzeAgain
  \/ PrintReport
  \/ Exit

SpecReuse == InitReuse /\ [][NextReuse]_vars

(***************************************************************************)
(* Properties.                                                             *)
(***************************************************************************)
\* analyze() on the current file has returned or raised
Returned == idx > 0 /\ pc \in {"print", "raised"}

LastReport == reports[Len(reports)]

AllIssues(iss) == iss.critical \o iss.high \o iss.medium \o iss.low

Occurrences(s, x) == Cardinality({i \in 1..Len(s) : s[i] = x})

SameBag(s, t) ==
  /\ Len(s) = Len(t)
  /\ \A i \in 1..Len(s) : Occurrences(s, s[i]) = Occurrences(t, s[i])

\* C1: when parsing raises a syntax error, analyze() does not raise and
\* returns a report with exactly one CRITICAL 'Syntax Error' issue, metrics
\* all zero and the six category scores all zero.
C1_SyntaxErrorReport ==
  (Returned /\ ~file_path.ok) =>
    /\ pc = "print"
    /\ Len(LastReport.issues.critical) = 1
    /\ LastReport.issues.critical[1].issue = "Syntax Error"
    /\ LastReport.issues.critical[1].severity = "CRITICAL"
    /\ LastReport.total_issues = 1
    /\ LastReport.metrics = init_metrics
    /\ LastReport.category_scores = init_scores

\* C2: a run over K files ends with exactly K reports, one per file in
\* traversal order, whatever the files contain: the loop reaches its end and
\* each file that parses has the report of its own analysis.
C2_OneReportPerFile ==
  (pc \in {"done", "raised"}) =>
    /\ pc = "done"
    /\ Len(reports) = Len(files_to_analyze)
    /\ \A i \in 1..Len(reports) :
         /\ reports[i].file = files_to_analyze[i].name
         /\ files_to_analyze[i].ok =>
              reports[i] = analyze(files_to_analyze[i], order)

\* C3: the verdict printed for a report is the one the precedence gives for
\* the report's overall score and the presence of CRITICAL issues.
C3_VerdictFromOverallScore ==
  \A i \in 1..Len(output) :
    output[i].verdict =
      readiness(reports[i].overall_score, reports[i].issues.critical)

\* C4: a report with at least one CRITICAL issue is printed with the 'not
\* production ready' verdict, whatever its scores.
C4_CriticalVeto ==
  \A i \in 1..Len(output) :
    reports[i].issues.critical # <<>> => output[i].verdict = NotReady

\* a report with a CRITICAL issue, an overall score of 9.0 or more and a
\* best_practices score of 10.0 has been printed
C4_Witness ==
  \E i \in 1..Len(output) :
    /\ reports[i].issues.critical # <<>>
    /\ reports[i].overall_score >= 90
    /\ reports[i].category_scores.best_practices = 100
    /\ output[i].verdict = NotReady

\* C5: once computed, overall_score is the sum of the six category scores
\* times their weights 0.20, 0.20, 0.15, 0.15, 0.15, 0.15, and lies in
\* [0, 10]; it is unset for a source that does not parse.
C5_WeightedSum ==
  /\ overall_score # NoAttr =>
       /\ overall_score =
            20 * scores.structure + 20 * scores.error_handling
            + 15 * scores.performance + 15 * scores.security
            + 15 * scores.maintainability + 15 * scores.best_practices
       /\ overall_score >= 0
       /\ overall_score <= 10000
  /\ (idx > 0 /\ pc \in {"report", "print"} /\ file_path.ok) =>
       overall_score # NoAttr

\* the overall score of a file whose categories differ has been computed
C5_Witness ==
  /\ pc = "report"
  /\ overall_score # NoAttr
  /\ overall_score < 10000
  /\ scores.structure # scores.security
  /\ scores.error_handling # scores.best_practices

\* the penalty that comes with an issue, and the category that applies it
Penalty(i) ==
  CASE i.issue = "Long Function" -> IF i.severity = "HIGH" THEN 10 ELSE 5
    [] i.issue = "Code Duplication" -> 10
    [] i.issue = "Bare Except Clause" -> 20
    [] i.issue = "No Error Handling" -> 20
    [] i.issue = "List Comprehension Opportunity" -> 3
    [] i.issue = "Hardcoded Secret" -> 30
    [] i.issue = "Dangerous Function" -> 30
    [] i.issue = "Low Documentation" -> 20
    [] i.issue = "Missing Type Hints" -> 10
    [] i.issue = "Print Statement" -> 2
    [] i.issue = "Naming Convention" -> 3
    [] OTHER -> 0

CategoryOf(i) ==
  CASE i.issue \in {"Long Function", "Code Duplication"} -> "structure"
    [] i.issue \in {"Bare Except Clause", "No Error Handling"} -> "error_handling"
    [] i.issue = "List Comprehension Opportunity" -> "performance"
    [] i.issue \in {"Hardcoded Secret", "Dangerous Function"} -> "security"
    [] i.issue \in {"Low Documentation", "Missing Type Hints"} -> "maintainability"
    [] i.issue \in {"Print Statement", "Naming Convention"} -> "best_practices"
    [] OTHER -> ""

Penalties(c, iss) ==
  SumSeq(Map(SelectSeq(AllIssues(iss), LAMBDA i : CategoryOf(i) = c), Penalty))

\* C6: every category score is within [0, 10] in every state, and the score
\* an analyzer has written is max(0, 10.0 - the penalties of its issues).
C6_ScoresClamped ==
  \A c \in Rules :
    /\ scores[c] >= 0
    /\ scores[c] <= 100
    /\ c \in ran => scores[c] = Max(0, 100 - Penalties(c, issues))

\* four or more hardcoded secrets: the penalties exceed 10.0, the score is 0
C6_Witness ==
  /\ "security" \in ran
  /\ Len(issues.critical) >= 4
  /\ Penalties("security", issues) > 100
  /\ scores.security = 0

\* C7: two analyses of the same file, each by a fresh analyzer, return the
\* same report, and the report analyze() has just returned is that of its
\* file alone, whatever was analyzed before it.
C7_SameFileSameReport ==
  /\ \A i, j \in 1..Len(reports) :
       files_to_analyze[i] = files_to_analyze[j] => reports[i] = reports[j]
  /\ pc = "print" => LastReport = analyze(file_path, order)

\* the same file with issues has been analyzed twice
C7_Witness ==
  /\ Len(reports) = 2
  /\ files_to_analyze[1] = files_to_analyze[2]
  /\ reports[2].total_issues > 0

\* C8 as claimed: with the rule analyzers in any order, the report is the
\* report of the reference order.
C8_AnyOrderSameReport ==
  \A i \in 1..Len(reports) :
    reports[i] = analyze(files_to_analyze[i], order)

\* C8 amended: with the rule analyzers in any order, the category scores,
\* the metrics, the overall score, the total and the critical sequence are
\* those of the reference order, and the high, medium and low sequences hold
\* the same issues the same number of times.
C8_AnyOrderSameFindings ==
  \A i \in 1..Len(reports) :
    LET ref == analyze(files_to_analyze[i], order)
    IN  /\ reports[i].category_scores = ref.category_scores
        /\ reports[i].metrics = ref.metrics
        /\ reports[i].overall_score = ref.overall_score
        /\ reports[i].total_issues = ref.total_issues
        /\ reports[i].issues.critical = ref.issues.critical
        /\ SameBag(reports[i].issues.high, ref.issues.high)
        /\ SameBag(reports[i].issues.medium, ref.issues.medium)
        /\ SameBag(reports[i].issues.low, ref.issues.low)

\* an order other than the reference order has given a report whose issue
\* sequences differ from those of the reference order
C8_Witness ==
  \E i \in 1..Len(reports) :
    reports[i].issues # analyze(files_to_analyze[i], order).issues

BareHandlers(t) ==
  Count(walk(t), LAMBDA n : n.kind = "ExceptHandler" /\ n.type = "None")

BareIssues(iss) == Count(iss.high, LAMBDA i : i.issue = "Bare Except Clause")

NoErrorHandlingIssues(iss) ==
  Count(iss.medium, LAMBDA i : i.issue = "No Error Handling")

\* C9 as claimed: each bare handler adds one HIGH 'Bare Except Clause' issue
\* and lowers the error_handling score by exactly 2.0, for any number of
\* handlers.
C9_EachBareLowersScore ==
  "error_handling" \in ran =>
    /\ BareIssues(issues) = BareHandlers(tree)
    /\ Count(AllIssues(issues), LAMBDA i : i.issue = "Bare Except Clause")
         = BareHandlers(tree)
    /\ scores.error_handling =
         100 - 20 * BareHandlers(tree) - 20 * NoErrorHandlingIssues(issues)

\* C9 amended: each bare handler adds one HIGH 'Bare Except Clause' issue
\* and a penalty of 2.0, and the error_handling score is 10.0 minus the
\* penalties, but not less than 0.
C9_EachBarePenalized ==
  "error_handling" \in ran =>
    /\ BareIssues(issues) = BareHandlers(tree)
    /\ Count(AllIssues(issues), LAMBDA i : i.issue = "Bare Except Clause")
         = BareHandlers(tree)
    /\ scores.error_handling =
         Max(0, 100 - 20 * BareHandlers(tree) - 20 * NoErrorHandlingIssues(issues))

\* six bare handlers next to a typed one: penalties of 12.0, score 0
C9_Witness ==
  /\ "error_handling" \in ran
  /\ BareHandlers(tree) >= 6
  /\ Count(walk(tree), LAMBDA n : n.kind = "ExceptHandler" /\ n.type # "None") > 0
  /\ scores.error_handling = 0

SecretIssuesAt(iss, i) ==
  Count(iss.critical, LAMBDA x : x.issue = "Hardcoded Secret" /\ x.line = i)

PatternsMatching(line) ==
  Cardinality({k \in 1..Len(secret_patterns) : re_search(secret_patterns[k], line)})

\* the number of patterns that match the sample lines, by Python's re
ExpectedMatches(line) ==
  CASE line = <<"password", " ", "=", " ", "\"", "x", "\"">> -> 1
    [] line = <<"#", " ", "password", "=", "\"", "x", "\"">> -> 1
    [] line = <<"PASSWORD", "=", "'", "'">> -> 1
    [] line = <<"Token", " ", "=", " ", "\"", "secret", "=", "'", "x", "'", "\"">> -> 2
    [] line = <<"password", " ", "=", "=", " ", "\"", "x", "\"">> -> 0
    [] line = <<"api_key", "=", "x">> -> 0
    [] line = <<"secret", "_", "token", "\t", "=", " ", "'", "x", "'">> -> 1
    [] line = <<>> -> 0
    [] OTHER -> PatternsMatching(line)

\* C10: the CRITICAL 'Hardcoded Secret' issues recorded at a line number are
\* as many as the patterns that match the line, each with a penalty of 3.0
\* on the security score; a line that matches the password pattern alone has
\* exactly one issue, and alone in its file leaves a score of 7.0.
C10_OneIssuePerPattern ==
  "security" \in ran =>
    /\ \A i \in 1..Len(lines) :
         /\ SecretIssuesAt(issues, i) = PatternsMatching(lines[i])
         /\ SecretIssuesAt(issues, i) = ExpectedMatches(lines[i])
         /\ SecretIssuesAt(issues, i) =
              Count(AllIssues(issues),
                    LAMBDA x : x.issue = "Hardcoded Secret" /\ x.line = i)
    /\ scores.security = Max(0, 100 - 30 * Len(issues.critical))
    /\ (\A x \in {issues.critical[k] : k \in 1..Len(issues.critical)} :
          x.issue = "Hardcoded Secret")
         => scores.security =
              Max(0, 100 - 30 * Cardinality(
                {m \in (1..Len(lines)) \X (1..Len(secret_patterns)) :
                   re_search(secret_patterns[m[2]], lines[m[1]])}))

\* a line matched by two patterns has two issues, next to a line matched by
\* the password pattern alone, which has one
C10_Witness ==
  /\ "security" \in ran
  /\ \E i, j \in 1..Len(lines) :
       /\ PatternsMatching(lines[i]) = 2
       /\ SecretIssuesAt(issues, i) = 2
       /\ re_search("password", lines[j])
       /\ PatternsMatching(lines[j]) = 1
       /\ SecretIssuesAt(issues, j) = 1
  /\ scores.security = 10

(***************************************************************************)
(* What a file holds, read off its tree independently of the analyzers.    *)
(***************************************************************************)
Functions(t) == SelectSeq(walk(t), IsFunctionDef)

\* the function opens with a documentation string that is not empty
HasDocstring(n) ==
  /\ n.children # <<>>
  /\ n.children[1].kind = "Expr"
  /\ n.children[1].children[1].kind = "Constant"
  /\ n.children[1].children[1].name \notin {"", " "}

\* a return annotation, or an annotation on a parameter of any kind
HasAnnotation(n) ==
  n.returns \/ n.other_ann \/ \E i \in 1..Len(n.args) : n.args[i]

IssuesOf(iss, kind) == SelectSeq(AllIssues(iss), LAMBDA i : i.issue = kind)

\* C11: for a file with at least one function the maintainability score is
\* 10.0, minus 2.0 if fewer than 50% of the functions have a docstring,
\* minus 1.0 if fewer than 30% have a type annotation, with one issue per
\* penalty applied (MEDIUM 'Low Documentation', LOW 'Missing Type Hints');
\* one undocumented, unannotated function gives 7.0; a file with no function
\* gives 10.0 and no maintainability issue.
C11_MaintainabilityScore ==
  "maintainability" \in ran =>
    LET funcs == Functions(tree)
        total == Len(funcs)
        docs == Count(funcs, HasDocstring)
        hints == Count(funcs, HasAnnotation)
        low_doc == total > 0 /\ 100 * docs < 50 * total
        low_hint == total > 0 /\ 100 * hints < 30 * total
    IN  /\ scores.maintainability =
             100 - (IF low_doc THEN 20 ELSE 0) - (IF low_hint THEN 10 ELSE 0)
        /\ Len(IssuesOf(issues, "Low Documentation")) = (IF low_doc THEN 1 ELSE 0)
        /\ Len(IssuesOf(issues, "Missing Type Hints")) = (IF low_hint THEN 1 ELSE 0)
        /\ \A i \in 1..Len(issues.medium) :
             issues.medium[i].issue = "Low Documentation" =>
               issues.medium[i].severity = "MEDIUM"
        /\ Count(issues.medium, LAMBDA i : i.issue = "Low Documentation")
             = Len(IssuesOf(issues, "Low Documentation"))
        /\ Count(issues.low, LAMBDA i : i.issue = "Missing Type Hints" /\ i.severity = "LOW")
             = Len(IssuesOf(issues, "Missing Type Hints"))
        /\ (total = 1 /\ docs = 0 /\ hints = 0) => scores.maintainability = 70
        /\ total = 0 =>
             /\ scores.maintainability = 100
             /\ IssuesOf(issues, "Low Documentation") = <<>>
             /\ IssuesOf(issues, "Missing Type Hints") = <<>>

Loops(t) == SelectSeq(walk(t), LAMBDA n : n.kind \in {"For", "While"})

\* an expression statement that calls a method named append
CallsAppendMethod(s) ==
  /\ s.kind = "Expr"
  /\ s.children[1].kind = "Call"
  /\ s.children[1].func = "Attribute"
  /\ s.children[1].id = "append"

\* the number of such statements inside the loop, at any depth
AppendsIn(n) == Count(walk(n), CallsAppendMethod)

LoopIssuesAt(iss, line) ==
  Count(AllIssues(iss),
        LAMBDA i : i.issue = "List Comprehension Opportunity" /\ i.line = line)

\* what is recorded for the loops of the sequence loops, and for no other
LoopsReported(loops) ==
  LET qualifying == SelectSeq(loops, LAMBDA n : AppendsIn(n) > 0)
      found == IssuesOf(issues, "List Comprehension Opportunity")
  IN  /\ \A k \in 1..Len(loops) :
           LoopIssuesAt(issues, loops[k].lineno) =
             (IF AppendsIn(loops[k]) > 0 THEN 1 ELSE 0)
      /\ Len(found) = Len(qualifying)
      /\ Count(issues.low, LAMBDA i :
           i.issue = "List Comprehension Opportunity" /\ i.severity = "LOW")
           = Len(found)
      /\ scores.performance = Max(0, 100 - 3 * Len(qualifying))

\* C12 as claimed: every loop node whose body holds, at any depth, an
\* expression statement calling a method named append has exactly one LOW
\* 'List Comprehension Opportunity' issue at its line, with a penalty of 0.3,
\* however many append calls it holds; a loop without such a statement has
\* none.
C12_EveryLoopWithAppend ==
  "performance" \in ran => LoopsReported(Loops(tree))

\* C12 amended: the same of every for loop node; while loops are not
\* examined and have no issue.
C12_EveryForLoopWithAppend ==
  "performance" \in ran =>
    /\ LoopsReported(SelectSeq(Loops(tree), LAMBDA n : n.kind = "For"))
    /\ \A k \in 1..Len(Loops(tree)) :
         Loops(tree)[k].kind = "While" =>
           LoopIssuesAt(issues, Loops(tree)[k].lineno) = 0

\* a for loop inside a for loop, the inner one with two append statements:
\* one issue at the line of each, and a score of 9.4
C12_Witness ==
  /\ "performance" \in ran
  /\ \E k, m \in 1..Len(Loops(tree)) :
       /\ Loops(tree)[k].kind = "For"
       /\ Loops(tree)[m].kind = "For"
       /\ Loops(tree)[k].lineno < Loops(tree)[m].lineno
       /\ AppendsIn(Loops(tree)[m]) = 2
       /\ LoopIssuesAt(issues, Loops(tree)[k].lineno) = 1
       /\ LoopIssuesAt(issues, Loops(tree)[m].lineno) = 1
  /\ scores.performance = 94

\* the status the process ends with: sys.exit(1), a traceback, or the return
\* of main()
exit_status ==
  CASE pc = "exited" -> 1
    [] pc = "raised" -> 1
    [] pc = "done" -> 0
    [] OTHER -> NoStatus

NothingAnalyzed ==
  /\ idx = 0
  /\ NoAnalyzer
  /\ reports = <<>>
  /\ output = <<>>

\* main() is still looking at its arguments, and has a step to take
CheckingArguments ==
  /\ pc \in {"main", "file", "directory"}
  /\ ENABLED (Usage \/ CollectFiles \/ FileNotFound \/ AppendFile \/ NoFile
              \/ DirectoryNotFound \/ WalkDirectory \/ NoDirectory)

BadPath(a) == Given(a) /\ ~exists(a)

\* C13: when a path given with --file or --directory does not exist (also
\* when both are given and one of them exists), main() never comes to its
\* loop: it checks its arguments until it exits with a non-zero status, and
\* no file is analyzed; so it is with neither argument.
C13_NoAnalysisOnBadPaths ==
  ( \/ BadPath(args.file)
    \/ BadPath(args.directory)
    \/ (~Given(args.file) /\ ~Given(args.directory)) ) =>
    /\ NothingAnalyzed
    /\ CheckingArguments \/ (pc = "exited" /\ exit_status # 0)
    /\ (~Given(args.file) /\ ~Given(args.directory)) =>
         (pc \in {"main", "exited"} /\ files_to_analyze = <<>>)
    /\ BadPath(args.file) => files_to_analyze = <<>>

\* the file exists and has been put on the list, the directory does not:
\* the process has exited
C13_Witness ==
  /\ pc = "exited"
  /\ exists(args.file)
  /\ BadPath(args.directory)
  /\ files_to_analyze = <<args.file.file>>
  /\ NothingAnalyzed

\* the parse step of the current file has raised SyntaxError
SyntaxErrorRaised ==
  /\ idx > 0
  /\ ~file_path.ok
  /\ pc \notin {"analyze", "parse"}

\* C14: when parsing raises a syntax error, the metric collector, the six
\* rule analyzers and the score aggregator do not run: from the moment
\* analyze() leaves the parse step, the issues are exactly one CRITICAL
\* 'Syntax Error' issue and every metric and category score has its initial
\* value 0.
C14_NothingRunsAfterSyntaxError ==
  SyntaxErrorRaised =>
    /\ pc \in {"report", "raised"}
    /\ ran = {}
    /\ overall_score = NoAttr
    /\ Len(issues.critical) = 1
    /\ issues.critical[1].issue = "Syntax Error"
    /\ issues.critical[1].severity = "CRITICAL"
    /\ Len(AllIssues(issues)) = 1
    /\ metrics = init_metrics
    /\ scores = init_scores
    /\ \A c \in Rules : scores[c] = 0

\* analyze() has left the parse step of a file of several lines that does
\* not parse, the second file of its run
C14_Witness ==
  /\ SyntaxErrorRaised
  /\ pc = "report"
  /\ idx = 2
  /\ Len(lines) > 1
  /\ issues.critical[1].line = 1

\* the metric collector of the current analyzer has finished, and analyze()
\* has not returned
AfterMetrics == pc \in {"rules", "calculate", "report"}

\* the fields the metric collector writes, and the field nothing writes
BasicMetrics(met) ==
  <<met.lines_of_code, met.comment_lines, met.blank_lines, met.functions,
    met.classes, met.complexity>>

LengthMetrics(met) == <<met.max_function_length, met.avg_function_length>>

\* C15 as claimed: once the metric collector has finished, no later step of
\* the analysis (rule analyzer, aggregator, report generator) changes any
\* field of the metrics.
C15_MetricsNeverRevised ==
  [][AfterMetrics => metrics' = metrics]_vars

\* C15 amended: once the metric collector has finished, no later step
\* changes lines_of_code, comment_lines, blank_lines, functions, classes or
\* complexity; max_function_length and avg_function_length are written by
\* the structure analyzer, for a file with a function, and changed by no
\* other step.
C15_OnlyLengthsRevised ==
  [][AfterMetrics =>
       /\ BasicMetrics(metrics') = BasicMetrics(metrics)
       /\ LengthMetrics(metrics') # LengthMetrics(metrics) =>
            /\ "structure" \notin ran
            /\ "structure" \in ran'
            /\ metrics.functions > 0
            /\ LengthMetrics(metrics) = LengthMetrics(init_metrics)]_vars

\* the structure analyzer has written the two lengths of a file with a
\* function, and another rule analyzer has run after it
C15_Witness ==
  /\ {"structure", "error_handling"} \subseteq ran
  /\ metrics.functions > 0
  /\ metrics.max_function_length > 50
  /\ metrics.avg_function_length # init_metrics.avg_function_length

TryBlocks(t) == Count(walk(t), LAMBDA n : n.kind = "Try")

\* C16: the MEDIUM 'No Error Handling' issue (line 0, penalty 2.0) is
\* recorded exactly when the file defines at least one function and holds no
\* try block, and at most once; a file with no function and no try block
\* never has it.  (It is the error handling analyzer that records it.)
C16_NoErrorHandlingGuard ==
  LET found == IssuesOf(issues, "No Error Handling")
      unhandled == Len(Functions(tree)) > 0 /\ TryBlocks(tree) = 0
  IN  /\ Len(found) <= 1
      /\ "error_handling" \notin ran => found = <<>>
      /\ "error_handling" \in ran =>
           /\ Len(found) = (IF unhandled THEN 1 ELSE 0)
           /\ Count(issues.medium, LAMBDA i :
                /\ i.issue = "No Error Handling"
                /\ i.line = 0
                /\ i.severity = "MEDIUM") = Len(found)
           /\ unhandled => scores.error_handling = 100 - 20
           /\ (Len(Functions(tree)) = 0 /\ TryBlocks(tree) = 0) =>
                scores.error_handling = 100

\* two functions and no try block: one issue, a score of 8.0
C16_Witness ==
  /\ "error_handling" \in ran
  /\ Len(Functions(tree)) = 2
  /\ TryBlocks(tree) = 0
  /\ Len(IssuesOf(issues, "No Error Handling")) = 1
  /\ scores.error_handling = 80

Buckets == {"critical", "high", "medium", "low"}

\* the severity a bucket is named after
SeverityOf(b) ==
  CASE b = "critical" -> "CRITICAL"
    [] b = "high" -> "HIGH"
    [] b = "medium" -> "MEDIUM"
    [] b = "low" -> "LOW"

InOwnBucket(iss) ==
  \A b \in Buckets : \A k \in 1..Len(iss[b]) : iss[b][k].severity = SeverityOf(b)

IsPrefix(s, t) == Len(s) <= Len(t) /\ SubSeq(t, 1, Len(s)) = s

\* every issue is in the bucket its severity names, and of no other; the
\* total of a report is the sum of the lengths of its four buckets
C17_Buckets ==
  /\ DOMAIN issues = Buckets
  /\ InOwnBucket(issues)
  /\ \A r \in 1..Len(reports) :
       /\ InOwnBucket(reports[r].issues)
       /\ reports[r].total_issues =
            Len(reports[r].issues.critical) + Len(reports[r].issues.high)
            + Len(reports[r].issues.medium) + Len(reports[r].issues.low)

\* a step of an analyzer leaves every bucket as it was, or longer by issues
\* at its end
C17_AppendOnly ==
  pc' # "analyze" => \A b \in Buckets : IsPrefix(issues[b], issues'[b])

\* C17: in every reachable state each recorded issue sits in exactly one of
\* the four severity buckets, the one its severity field names; issues are
\* only appended, never removed, reordered, deduplicated or merged; the
\* total_issues of a report is the sum of the four bucket lengths.
C17_IssuesBySeverity == []C17_Buckets /\ [][C17_AppendOnly]_vars

\* a report with the same issue twice in one bucket and issues in another
\* bucket: its total counts them all
C17_Witness ==
  \E r \in 1..Len(reports) :
    /\ Len(reports[r].issues.critical) >= 2
    /\ reports[r].issues.critical[1] = reports[r].issues.critical[2]
    /\ reports[r].issues.low # <<>>
    /\ reports[r].total_issues >= 3

\* end line minus start line
LengthOf(n) == n.end_lineno - n.lineno

\* the lines the duplication check looks at: trimmed, not blank, not a
\* comment, longer than 20 characters
Candidates(ls) ==
  {i \in 1..Len(ls) :
     /\ strip(ls[i]) # <<>>
     /\ strip(ls[i])[1] # "#"
     /\ len(strip(ls[i])) > 20}

\* some such line occurs more than 2 times
Duplicated(ls) ==
  \E i, j, k \in Candidates(ls) :
    /\ i < j
    /\ j < k
    /\ strip(ls[i]) = strip(ls[j])
    /\ strip(ls[j]) = strip(ls[k])

LongFunctionIssues(iss, n, severity) ==
  Count(AllIssues(iss), LAMBDA i :
    /\ i.issue = "Long Function"
    /\ i.line = n.lineno
    /\ i.severity = severity)

\* C18: the structure score is max(0, 10.0 - 1.0 for each function longer
\* than 100 - 0.5 for each function longer than 50 and not longer than 100
\* - 1.0 if the duplication check fires), the length being end line minus
\* start line; a function has at most one 'Long Function' issue (HIGH above
\* 100, MEDIUM above 50, none at 50 or below); 'Code Duplication' is
\* recorded at most once, however many lines are repeated.
C18_StructureScore ==
  "structure" \in ran =>
    LET funcs == Functions(tree)
        long == Count(funcs, LAMBDA n : LengthOf(n) > 100)
        mid == Count(funcs, LAMBDA n : LengthOf(n) > 50 /\ LengthOf(n) <= 100)
        fires == Duplicated(lines)
    IN  /\ scores.structure =
             Max(0, 100 - 10 * long - 5 * mid - (IF fires THEN 10 ELSE 0))
        /\ \A k \in 1..Len(funcs) :
             /\ LongFunctionIssues(issues, funcs[k], "HIGH") =
                  (IF LengthOf(funcs[k]) > 100 THEN 1 ELSE 0)
             /\ LongFunctionIssues(issues, funcs[k], "MEDIUM") =
                  (IF LengthOf(funcs[k]) > 50 /\ LengthOf(funcs[k]) <= 100
                   THEN 1 ELSE 0)
        /\ Len(IssuesOf(issues, "Long Function")) = long + mid
        /\ Count(issues.high, LAMBDA i : i.issue = "Long Function") = long
        /\ Count(issues.medium, LAMBDA i : i.issue = "Long Function") = mid
        /\ Len(IssuesOf(issues, "Code Duplication")) = (IF fires THEN 1 ELSE 0)
        /\ Count(issues.medium, LAMBDA i : i.issue = "Code Duplication")
             = Len(IssuesOf(issues, "Code Duplication"))

\* a function of 101 lines and two different lines repeated three times
\* each: one HIGH issue, one 'Code Duplication' issue, a score of 8.0
C18_Witness ==
  /\ "structure" \in ran
  /\ \E i, j \in Candidates(lines) :
       /\ strip(lines[i]) # strip(lines[j])
       /\ Cardinality({k \in Candidates(lines) : strip(lines[k]) = strip(lines[i])}) > 2
       /\ Cardinality({k \in Candidates(lines) : strip(lines[k]) = strip(lines[j])}) > 2
  /\ Count(Functions(tree), LAMBDA n : LengthOf(n) = 101) = 1
  /\ Len(IssuesOf(issues, "Code Duplication")) = 1
  /\ Len(issues.high) = 1
  /\ scores.structure = 80

\* the type-hint coverage the analyzer has worked with, as its output shows
\* it: a 'Missing Type Hints' issue with the percentage in its description
\* when the coverage is under 30%, no such issue otherwise
CoverageShown(hinted, total) ==
  LET found == IssuesOf(issues, "Missing Type Hints")
  IN  IF 100 * hinted < 30 * total
      THEN /\ Len(found) = 1
           /\ found[1].description.num = RoundDiv(100 * hinted, total)
      ELSE found = <<>>

\* C19: in the type-hint coverage a function counts as type-hinted exactly
\* when it has a return annotation or an annotation on one of its
\* parameters, of whatever kind (positional, positional-only, keyword-only,
\* *args, **kwargs).
C19_AnyAnnotationCounts ==
  ("maintainability" \in ran /\ Functions(tree) # <<>>) =>
    CoverageShown(Count(Functions(tree), HasAnnotation), Len(Functions(tree)))

FileLevel == {"Code Duplication", "No Error Handling", "Low Documentation",
              "Missing Type Hints"}

\* the line an issue of the file f with the lines ls may carry
LineAsClaimed(i, f, ls) ==
  /\ i.line \in Nat
  /\ CASE i.issue = "Syntax Error" ->
            i.line = (IF f.errline = NoLine THEN 0 ELSE f.errline)
       [] i.issue \in FileLevel -> i.line = 0
       [] OTHER -> i.line >= 1 /\ i.line <= Len(ls)

\* C20: the line of every recorded issue is a non-negative integer: the
\* number (1 or more) of the node or of the source line for a located
\* finding, 0 for a finding about the file, and for a syntax error the line
\* of the error, or 0 when the parser gives none.
C20_LinesNonNegative ==
  idx > 0 =>
    \A b \in Buckets : \A k \in 1..Len(issues[b]) :
      LineAsClaimed(issues[b][k], file_path, lines)

\* the second call of analyze() on the analyzer has returned
SecondReturned == calls = 2 /\ pc = "print"

\* the report the first call returned
FirstReport == reports[Len(reports) - 1]

Counters == {"blank_lines", "comment_lines", "functions", "classes"}

C21_Doubled ==
  SecondReturned =>
    /\ \A b \in Buckets : issues[b] = FirstReport.issues[b] \o FirstReport.issues[b]
    /\ LastReport.issues = issues
    /\ LastReport.total_issues = 2 * FirstReport.total_issues
    /\ \A c \in Counters : metrics[c] = 2 * FirstReport.metrics[c]
    /\ LastReport.metrics = metrics
    /\ metrics.lines_of_code = FirstReport.metrics.lines_of_code
    /\ scores = FirstReport.category_scores
    /\ LastReport.category_scores = scores
    /\ LastReport.overall_score = FirstReport.overall_score

\* a step from the return of the first call to the end of the second
C21_OverallScoreKept ==
  (pc = "print" /\ calls = 1) \/ calls' = 2 => overall_score' = overall_score

\* C21: analyze() never resets the analyzer.  When the second call on the
\* same analyzer, over the same file, which parses, has returned, every
\* bucket of issues holds the issues of the first call followed by the same
\* issues again, so that total_issues is twice what it was; blank_lines,
\* comment_lines, functions and classes are twice what they were after the
\* first call; lines_of_code and the six category scores are what they were,
\* and overall_score has kept its value from the return of the first call on.
C21_SecondCallAccumulates == []C21_Doubled /\ [][C21_OverallScoreKept]_vars

\* the second call has returned for a file with issues in two buckets, a
\* function, a blank line and a score below 10
C21_Witness ==
  /\ SecondReturned
  /\ Len(issues.medium) >= 2
  /\ Len(issues.low) >= 2
  /\ metrics.functions >= 2
  /\ metrics.blank_lines >= 2
  /\ overall_score < 10000
  /\ overall_score = _calculate_scores(FirstReport.category_scores)

====
